---------------------------- MODULE Spec2Model ----------------------------
(***************************************************************************)
(* A model of the PII anonymizer service (backend/src).                    *)
(*                                                                         *)
(*  - Spec / SpecGoC : the pii_mappings table (SQLite through SQLAlchemy)  *)
(*    under concurrent anonymize requests, each a database session that    *)
(*    runs MappingStore.get_or_create once per detected span and commits   *)
(*    once; Spec adds the administrative routes of api/routes/mappings.py. *)
(*  - SpecHash : MappingStore.compute_hash as a pure function.             *)
(*  - SpecAnon : POST /anonymize and POST /anonymize/batch run one request *)
(*    at a time: validation, detection, the anonymizer engine, the mapping *)
(*    store, the reported result and the audit log.                        *)
(*  - SpecGen : calls of SyntheticGenerator.generate.                      *)
(*  - SpecConfig : PUT /config (ConfigService.update_config) and the       *)
(*    defaults the anonymize routes take from the active configuration.    *)
(*  - SpecLoop : the rejection loops of generate_public_ipv4 and           *)
(*    generate_public_network, one candidate at a time.                    *)
(***************************************************************************)
EXTENDS Integers, Sequences, FiniteSets, TLC

(***************************************************************************)
(* Bounds of the model.                                                    *)
(***************************************************************************)
NumSessions == 2
MaxRequests == 3
MaxSpans == 2

Sessions == 1..NumSessions

(***************************************************************************)
(* Small input domains.                                                    *)
(***************************************************************************)
Values == {"a"}
StoreTypes == {"PERSON", "LOCATION"}
Substitutes == {"X", "YY"}
NoVal == "<none>"

Max(S) == CHOOSE x \in S : \A y \in S : y <= x

SeqsUpTo(S, n) == UNION {[1..k -> S] : k \in 0..n}

(***************************************************************************)
(* MappingStore.compute_hash: the digest of f"{original_value}|{entity_    *)
(* type}".  SHA-256 is taken to be injective on its input, so the digest   *)
(* is represented by the string that is hashed.                            *)
(***************************************************************************)
\* A digest of the value alone.
HashNoType(original_value, entity_type) == original_value

compute_hash(original_value, entity_type) == original_value \o "|" \o entity_type

(***************************************************************************)
(* The pii_mappings table: a set of rows.                                  *)
(***************************************************************************)
VARIABLES
    rows,       \* committed rows of pii_mappings
    txn,        \* the table as the session holding the write lock sees it
    wlock,      \* 0, or the session holding SQLite's write lock
    clock,      \* datetime.utcnow(), as a logical clock
    started,    \* HTTP requests accepted so far
    pc,         \* pc[s]: position of session s in its request
    req,        \* req[s]: the spans <<value, type>> the engine operates on
    existing,   \* existing[s]: get_substitute's result in get_or_create
    snap,       \* snap[s]: the row increment_count read
    ret,        \* ret[s]: (substitute, is_new) results returned so far
    err,        \* err[s]: the exception that ended the request
    first,      \* first[k]: the substitute the first completed call for key k returned
    last,       \* the get_or_create call that completed last
    updated,    \* updated[k]: the substitute the last committed update_substitute gave the row of key k
    pending     \* sessions whose get_or_create call had begun when an update of its row committed

storeVars == <<rows, txn, wlock, clock, started, pc, req, existing, snap, ret, err, first, last,
               updated, pending>>

\* compute_hash applied to one value under two entity types.
VARIABLES
    hv,         \* the original value
    ht1, ht2,   \* the two entity types
    hd1, hd2,   \* the two digests
    hpc         \* "off", "input" or "hashed"

hashVars == <<hv, ht1, ht2, hd1, hd2, hpc>>

\* One anonymize request: what the route received and what it answered.
VARIABLES
    aPc,                    \* "idle"; once a request was answered "done" (200), "rejected" (422, 400), "failed" (500), or the same with "batch_"
    text,                   \* the request's text, a sequence of characters
    entity_types,           \* the request's entity_types: None or Some(list)
    confidence_threshold,   \* the request's threshold, in tenths
    detections,             \* what PIIDetector.detect returned
    items,                  \* engine_result.items, sorted by start
    result,                 \* the AnonymizationResult
    audit_log,              \* rows of the audit_log table, oldest first
    batch,                  \* the last batch request: its texts and its results
    effective               \* the entity types and threshold the route handed to the anonymizer

anonVars == <<aPc, text, entity_types, confidence_threshold, detections, items,
              result, audit_log, batch, effective>>

(***************************************************************************)
(* SyntheticGenerator: the generate calls made so far.                     *)
(***************************************************************************)
VARIABLES
    gen_calls,   \* number of generate calls made
    gen_prev,    \* the call before the last one
    gen_last,    \* the last call: its arguments and what it returned
    ip_loop      \* the generate_public_* call under way: its loop, and what it returned

genVars == <<gen_calls, gen_prev, gen_last, ip_loop>>

\* The active configuration and the PUT /config requests made.
VARIABLES
    config,       \* the active AnonymizationConfig with its entity_types, or NoConfig
    cfg_prev,     \* the configuration before the last PUT /config
    cfg_last,     \* the last PUT /config: its request and the HTTP status
    cfg_updates   \* PUT /config requests made

cfgVars == <<config, cfg_prev, cfg_last, cfg_updates>>

vars == <<storeVars, hashVars, anonVars, genVars, cfgVars>>

NoRow == [id |-> 0]
NoCall == [session |-> 0]

Keys == {<<compute_hash(v, t), t>> : v \in Values, t \in StoreTypes}

\* The table session s reads and writes: its own transaction when it holds
\* the write lock, the committed table otherwise (pysqlite opens no
\* transaction for a SELECT).
View(s) == IF wlock = s THEN txn ELSE rows

\* .filter(original_hash == h, entity_type == t)
Matching(tbl, h, t) == {r \in tbl : r.original_hash = h /\ r.entity_type = t}

\* INTEGER PRIMARY KEY without AUTOINCREMENT: the largest rowid plus one.
NextId(tbl) == IF tbl = {} THEN 1 ELSE Max({r.id : r \in tbl}) + 1

\* The unique index idx_lookup rejects the insert.
NoUniqueIndex(tbl, h, t) == FALSE

UniqueViolation(tbl, h, t) == Matching(tbl, h, t) # {}

\* A create_mapping that stores another value than the one it was given.
NewMappingOther(tbl, h, t, substitute, now) ==
    [id |-> NextId(tbl), original_hash |-> h, entity_type |-> t,
     substitute |-> CHOOSE x \in Substitutes : x # substitute,
     first_seen |-> now, last_used |-> now, substitution_count |-> 1]

\* PIIMapping(...) as built by create_mapping.
NewMapping(tbl, h, t, substitute, now) ==
    [id |-> NextId(tbl), original_hash |-> h, entity_type |-> t,
     substitute |-> substitute, first_seen |-> now, last_used |-> now,
     substitution_count |-> 1]

\* An increment_count that stamps last_used and leaves the count.
IncrementedLastUsedOnly(tbl, m, now) ==
    {IF r.id = m.id THEN [r EXCEPT !.last_used = now] ELSE r : r \in tbl}

\* The UPDATE increment_count flushes: the count it read plus one.
Incremented(tbl, m, now) ==
    {IF r.id = m.id
        THEN [r EXCEPT !.substitution_count = m.substitution_count + 1,
                       !.last_used = now]
        ELSE r : r \in tbl}

\* The span operate() is working on: one call has returned per earlier span.
CurSpan(s) == req[s][Len(ret[s]) + 1]
CurValue(s) == CurSpan(s)[1]
CurType(s) == CurSpan(s)[2]
CurHash(s) == compute_hash(CurValue(s), CurType(s))
CurKey(s) == <<CurHash(s), CurType(s)>>

\* get_or_create returns: record the result and go on to the next span.
Return(s, substitute, is_new) ==
    /\ ret' = [ret EXCEPT ![s] = Append(@, <<substitute, is_new>>)]
    /\ first' = IF first[CurKey(s)] = NoVal
                    THEN [first EXCEPT ![CurKey(s)] = substitute]
                    ELSE first
    /\ last' = [session |-> s, key |-> CurKey(s),
                substitute |-> substitute, is_new |-> is_new,
                is_first |-> (first[CurKey(s)] = NoVal)]
    /\ pc' = [pc EXCEPT ![s] = IF Len(ret[s]) + 1 = Len(req[s]) THEN "commit" ELSE "lookup"]

\* An exception leaves anonymize; the route answers 500 and get_db closes
\* the session, which rolls the open transaction back.
Raise(s, exception) ==
    /\ pc' = [pc EXCEPT ![s] = "failed"]
    /\ err' = [err EXCEPT ![s] = exception]
    /\ wlock' = IF wlock = s THEN 0 ELSE wlock
    /\ txn' = IF wlock = s THEN rows ELSE txn

InitStore ==
    /\ rows = {}
    /\ txn = {}
    /\ wlock = 0
    /\ clock = 1
    /\ started = 0
    /\ pc = [s \in Sessions |-> "idle"]
    /\ req = [s \in Sessions |-> <<>>]
    /\ existing = [s \in Sessions |-> NoVal]
    /\ snap = [s \in Sessions |-> NoRow]
    /\ ret = [s \in Sessions |-> <<>>]
    /\ err = [s \in Sessions |-> NoVal]
    /\ first = [k \in Keys |-> NoVal]
    /\ last = NoCall
    /\ updated = [k \in Keys |-> NoVal]
    /\ pending = {}

InitHashIdle ==
    /\ hv = NoVal /\ ht1 = NoVal /\ ht2 = NoVal
    /\ hd1 = NoVal /\ hd2 = NoVal /\ hpc = "off"

InitAnonIdle ==
    /\ aPc = "idle"
    /\ text = <<>>
    /\ entity_types = [given |-> FALSE, list |-> <<>>]
    /\ confidence_threshold = 7
    /\ detections = <<>>
    /\ items = <<>>
    /\ result = [anonymized_text |-> <<>>, substitutions |-> <<>>,
                 entities_detected |-> 0, entities_anonymized |-> 0,
                 new_mappings_created |-> 0, existing_mappings_used |-> 0]
    /\ audit_log = <<>>
    /\ batch = [texts |-> <<>>, found |-> <<>>, results |-> <<>>, stores |-> <<>>,
                before |-> [tbl |-> {}, now |-> 1], logged |-> <<>>,
                total_detected |-> 0]
    /\ effective = [entity_types |-> [given |-> FALSE, list |-> <<>>],
                    confidence_threshold |-> 7]

\* A request arrives whose detections are `spans`; the engine will call
\* ConsistentReplaceOperator.operate once per span.
StartRequest(s) ==
    /\ pc[s] \in {"idle", "done", "failed"}
    /\ started < MaxRequests
    /\ \E spans \in SeqsUpTo(Values \X StoreTypes, MaxSpans) :
          /\ spans # <<>>
          /\ req' = [req EXCEPT ![s] = spans]
    /\ started' = started + 1
    /\ pc' = [pc EXCEPT ![s] = "lookup"]
    /\ ret' = [ret EXCEPT ![s] = <<>>]
    /\ err' = [err EXCEPT ![s] = NoVal]
    /\ existing' = [existing EXCEPT ![s] = NoVal]
    /\ snap' = [snap EXCEPT ![s] = NoRow]
    /\ UNCHANGED <<rows, txn, wlock, clock, first, last, updated, pending,
                 hashVars, anonVars, genVars, cfgVars>>

\* get_or_create: existing = self.get_substitute(original_value, entity_type)
Lookup(s) ==
    /\ pc[s] = "lookup"
    /\ LET found == Matching(View(s), CurHash(s), CurType(s)) IN
          IF found # {}
             THEN /\ existing' = [existing EXCEPT ![s] = (CHOOSE r \in found : TRUE).substitute]
                  /\ pc' = [pc EXCEPT ![s] = "inc_read"]
             ELSE /\ existing' = [existing EXCEPT ![s] = NoVal]
                  /\ pc' = [pc EXCEPT ![s] = "insert"]
    /\ pending' = pending \ {s}
    /\ UNCHANGED <<rows, txn, wlock, clock, started, req, snap, ret, err, first, last, updated,
                 hashVars, anonVars, genVars, cfgVars>>

\* increment_count: the SELECT.  With no row it returns 0 and get_or_create
\* still returns (existing, False).
IncRead(s) ==
    /\ pc[s] = "inc_read"
    /\ LET found == Matching(View(s), CurHash(s), CurType(s)) IN
          IF found # {}
             THEN /\ snap' = [snap EXCEPT ![s] = CHOOSE r \in found : TRUE]
                  /\ pc' = [pc EXCEPT ![s] = "inc_write"]
                  /\ UNCHANGED <<ret, first, last>>
             ELSE /\ Return(s, existing[s], FALSE)
                  /\ UNCHANGED snap
    /\ UNCHANGED <<rows, txn, wlock, clock, started, req, existing, err, updated, pending,
                 hashVars, anonVars, genVars, cfgVars>>

\* increment_count: substitution_count += 1, last_used = utcnow(), flush().
IncWrite(s) ==
    /\ pc[s] = "inc_write"
    /\ wlock \in {0, s}
    /\ IF \E r \in View(s) : r.id = snap[s].id
          THEN /\ txn' = Incremented(View(s), snap[s], clock)
               /\ wlock' = s
               /\ clock' = clock + 1
               /\ Return(s, existing[s], FALSE)
               /\ UNCHANGED err
          ELSE /\ Raise(s, "StaleDataError")
               /\ UNCHANGED <<clock, ret, first, last>>
    /\ UNCHANGED <<rows, started, req, existing, snap, updated, pending,
                 hashVars, anonVars, genVars, cfgVars>>

\* get_or_create on a miss: generator_func(entity_type, original_value),
\* then create_mapping: add() and flush().
Insert(s) ==
    /\ pc[s] = "insert"
    /\ wlock \in {0, s}
    /\ IF UniqueViolation(View(s), CurHash(s), CurType(s))
          THEN /\ Raise(s, "IntegrityError")
               /\ UNCHANGED <<clock, ret, first, last>>
          ELSE /\ \E substitute \in Substitutes :
                     /\ txn' = View(s) \cup
                                 {NewMapping(View(s), CurHash(s), CurType(s), substitute, clock)}
                     /\ Return(s, substitute, TRUE)
               /\ wlock' = s
               /\ clock' = clock + 1
               /\ UNCHANGED err
    /\ UNCHANGED <<rows, started, req, existing, snap, updated, pending,
                 hashVars, anonVars, genVars, cfgVars>>

\* Another session holds the write lock for longer than the busy timeout:
\* sqlite3 raises OperationalError("database is locked").
Busy(s) ==
    /\ pc[s] \in {"inc_write", "insert"}
    /\ wlock \notin {0, s}
    /\ Raise(s, "OperationalError")
    /\ UNCHANGED <<rows, clock, started, req, existing, snap, ret, first, last, updated, pending,
                 hashVars, anonVars, genVars, cfgVars>>

\* anonymize: self._db.commit() after the engine has run.
Commit(s) ==
    /\ pc[s] = "commit"
    /\ rows' = View(s)
    /\ txn' = View(s)
    /\ wlock' = IF wlock = s THEN 0 ELSE wlock
    /\ pc' = [pc EXCEPT ![s] = "done"]
    /\ UNCHANGED <<clock, started, req, existing, snap, ret, err, first, last, updated, pending,
                 hashVars, anonVars, genVars, cfgVars>>

GoCNext ==
    \E s \in Sessions :
        \/ StartRequest(s)
        \/ Lookup(s)
        \/ IncRead(s)
        \/ IncWrite(s)
        \/ Insert(s)
        \/ Busy(s)
        \/ Commit(s)

\* A string is kept parsed: `s` for free text, or the four octets of a
\* dotted quad with the number after "/" (NoPrefix when there is none).
\* Originals are in canonical decimal form, on which parsing and str() are
\* inverse to each other.
NoPrefix == 99
Text(s) == [s |-> s, octets |-> <<>>, prefix |-> NoPrefix]
Ip(o, p) == [s |-> "", octets |-> o, prefix |-> p]

\* original_value = None
NoOriginal == Text("<None>")

NoGenCall == [entity_type |-> "", original_value |-> NoOriginal,
              original_hash |-> "", result |-> NoOriginal]

\* No generate_public_* call has been made.
NoLoop == [fn |-> "", prefix_len |-> NoPrefix, rejected |-> 0, status |-> "idle",
           via |-> "", result |-> <<>>, calls |-> 0]

InitGenIdle ==
    /\ gen_calls = 0
    /\ gen_prev = NoGenCall
    /\ gen_last = NoGenCall
    /\ ip_loop = NoLoop

(***************************************************************************)
(* The active configuration (models/config.py, models/entity_type_config.  *)
(* py) and ConfigService.  Python's None is the string "None"; thresholds  *)
(* are in tenths, an omitted one is Omitted.                               *)
(***************************************************************************)
MaxConfigUpdates == 1

PyNone == "None"
Omitted == -1

\* No row of anonymization_configs has is_active = TRUE (init_db creates
\* the tables and nothing else).
NoConfig == [id |-> 0]

NoConfigRequest == [confidence_threshold |-> Omitted, locale |-> PyNone, entity_types |-> <<>>]

InitConfigIdle ==
    /\ config = NoConfig
    /\ cfg_prev = NoConfig
    /\ cfg_last = [request |-> NoConfigRequest, status |-> 0]
    /\ cfg_updates = 0

Init == InitStore /\ InitHashIdle /\ InitAnonIdle /\ InitGenIdle /\ InitConfigIdle

SpecGoC == Init /\ [][GoCNext]_vars

(***************************************************************************)
(* The administrative routes of api/routes/mappings.py.  Each runs in a    *)
(* session of its own: one statement, flush, commit.  It goes through when *)
(* no request holds the write lock.                                        *)
(***************************************************************************)

\* The (original_hash, entity_type) of a row.
KeyOf(r) == <<r.original_hash, r.entity_type>>

\* Session s is inside a get_or_create call that has run its lookup.
InCall(s) == pc[s] \in {"inc_read", "inc_write", "insert"}

\* An update that also rewrites the row's usage count.
UpdateSubstituteResetsCount(tbl, mapping_id, new_substitute) ==
    {IF r.id = mapping_id
        THEN [r EXCEPT !.substitute = new_substitute, !.substitution_count = 1]
        ELSE r : r \in tbl}

\* update_substitute: mapping.substitute = new_substitute; flush().
update_substitute(tbl, mapping_id, new_substitute) ==
    {IF r.id = mapping_id THEN [r EXCEPT !.substitute = new_substitute] ELSE r : r \in tbl}

\* PUT /mappings/{id}: update_substitute, then db.commit().
UpdateMapping ==
    /\ started < MaxRequests
    /\ wlock = 0
    /\ \E r \in rows, new_substitute \in Substitutes :
          /\ new_substitute # r.substitute
          /\ rows' = update_substitute(rows, r.id, new_substitute)
          /\ updated' = [updated EXCEPT ![KeyOf(r)] = new_substitute]
          /\ pending' = pending \cup {s \in Sessions : InCall(s) /\ CurKey(s) = KeyOf(r)}
    /\ txn' = rows'
    /\ started' = started + 1
    /\ UNCHANGED <<wlock, clock, pc, req, existing, snap, ret, err, first, last, hashVars, anonVars, genVars, cfgVars>>

\* DELETE /mappings/{id}: delete_by_id, then db.commit().
DeleteMapping ==
    /\ started < MaxRequests
    /\ wlock = 0
    /\ \E r \in rows :
          /\ rows' = {q \in rows : q.id # r.id}
          /\ updated' = [updated EXCEPT ![KeyOf(r)] = NoVal]
    /\ txn' = rows'
    /\ started' = started + 1
    /\ UNCHANGED <<wlock, clock, pc, req, existing, snap, ret, err, first, last, pending,
                   hashVars, anonVars, genVars, cfgVars>>

\* DELETE /mappings: delete_all, then db.commit().
DeleteAllMappings ==
    /\ started < MaxRequests
    /\ wlock = 0
    /\ rows # {}
    /\ rows' = {}
    /\ txn' = rows'
    /\ updated' = [k \in Keys |-> NoVal]
    /\ started' = started + 1
    /\ UNCHANGED <<wlock, clock, pc, req, existing, snap, ret, err, first, last, pending,
                   hashVars, anonVars, genVars, cfgVars>>

Next ==
    \/ GoCNext
    \/ UpdateMapping
    \/ DeleteMapping
    \/ DeleteAllMappings

Spec == Init /\ [][Next]_vars

(***************************************************************************)
(* SpecHash: compute_hash on one value under two entity types.             *)
(***************************************************************************)
HashValues == {"", "a", "b", "a|PERSON", "John Smith", "|"}
HashTypes == {"PERSON", "LOCATION", "EMAIL_ADDRESS", "URL"}

InitHash ==
    /\ InitStore
    /\ hv \in HashValues
    /\ ht1 \in HashTypes
    /\ ht2 \in HashTypes
    /\ hd1 = NoVal
    /\ hd2 = NoVal
    /\ hpc = "input"
    /\ InitAnonIdle
    /\ InitGenIdle
    /\ InitConfigIdle

ComputeHashes ==
    /\ hpc = "input"
    /\ hd1' = compute_hash(hv, ht1)
    /\ hd2' = compute_hash(hv, ht2)
    /\ hpc' = "hashed"
    /\ UNCHANGED <<hv, ht1, ht2, storeVars, anonVars, genVars, cfgVars>>

SpecHash == InitHash /\ [][ComputeHashes]_vars

(***************************************************************************)
(* SpecAnon: POST /anonymize, one request at a time.  Strings that are      *)
(* sliced are sequences of one-character strings; a threshold or score is   *)
(* a number of tenths.                                                      *)
(***************************************************************************)
MaxTextLen == 3
MaxAnonRequests == 1

TextChars == {"a", " "}
Texts == UNION {[1..k -> TextChars] : k \in 1..MaxTextLen}
Scores == {6, 9}
Thresholds == {5, 7}

\* Scores are tenths: a confidence of 1.0 is ScoreOne.
ScoreOne == 10

\* What a request may carry: also an empty text and a threshold above 1.0.
RequestTexts == {<<>>} \cup Texts
RequestThresholds == Thresholds \cup {ScoreOne + 1}

Min(S) == CHOOSE x \in S : \A y \in S : x <= y

Elems(l) == {l[i] : i \in DOMAIN l}

\* The str of a sequence of characters.
RECURSIVE Str(_)
Str(chars) == IF chars = <<>> THEN "" ELSE Head(chars) \o Str(Tail(chars))

\* What SyntheticGenerator.generate may return for a value of a text:
\* generate does not compare its result with original_value, so the value
\* itself is among the results.
Generated == Substitutes \cup {"a"}

\* The characters of a generated substitute.
Chars(s) == CASE s = "X" -> <<"X">> [] s = "YY" -> <<"Y", "Y">> [] s = "a" -> <<"a">>

\* s[a:b]
PySlice(s, a, b) ==
    LET lo == IF a < Len(s) THEN a ELSE Len(s)
        hi == IF b < Len(s) THEN b ELSE Len(s)
    IN IF lo >= hi THEN <<>> ELSE SubSeq(s, lo + 1, hi)

\* list.remove(x): without the first element equal to x.
RemoveFirst(l, x) ==
    LET at == {i \in DOMAIN l : l[i] = x} IN
    IF at = {} THEN l
    ELSE SubSeq(l, 1, Min(at) - 1) \o SubSeq(l, Min(at) + 1, Len(l))

RECURSIVE SubsetsUpTo(_, _)
SubsetsUpTo(S, n) ==
    IF n = 0 THEN {{}}
    ELSE LET P == SubsetsUpTo(S, n - 1) IN P \cup {p \cup {x} : p \in P, x \in S}

\* list[str] | None
None == [given |-> FALSE, list |-> <<>>]
Some(l) == [given |-> TRUE, list |-> l]
Truthy(opt) == opt.given /\ opt.list # <<>>

EntityTypeLists ==
    {None, Some(<<>>), Some(<<"PERSON">>), Some(<<"LOCATION">>),
     Some(<<"PERSON", "LOCATION">>), Some(<<"FOO">>), Some(<<"PERSON", "FOO">>)}

(***************************************************************************)
(* PIIDetector.                                                             *)
(***************************************************************************)
SUPPORTED_ENTITY_TYPES ==
    {"PERSON", "EMAIL_ADDRESS", "PHONE_NUMBER", "CREDIT_CARD", "US_SSN",
     "US_BANK_NUMBER", "US_DRIVER_LICENSE", "US_ITIN", "US_PASSPORT",
     "IP_ADDRESS", "LOCATION", "STREET_ADDRESS", "DATE_TIME", "NRP",
     "MEDICAL_LICENSE", "URL", "IBAN_CODE", "CRYPTO", "GUID", "COORDINATE"}

\* The entity types whose recognizers find something in the bounded texts.
RecognizedTypes == {"PERSON", "LOCATION"}

\* detect: entity_types or SUPPORTED_ENTITY_TYPES, filtered to the supported.
EntitiesToDetect(types) ==
    LET entities_to_detect ==
            IF Truthy(types) THEN Elems(types.list) ELSE SUPPORTED_ENTITY_TYPES
    IN {e \in entities_to_detect : e \in SUPPORTED_ENTITY_TYPES}

\* What the recognizers may report: any span of the text, of any type asked
\* for (an empty `entities` asks for every type of the registry), with a
\* score that passes the threshold.
Candidates(txt, entities, threshold) ==
    LET types == IF entities = {} THEN RecognizedTypes
                 ELSE entities \cap RecognizedTypes
    IN {r \in [entity_type : types, start : 0..(Len(txt) - 1),
               end : 1..Len(txt), score : Scores] :
            r.start < r.end /\ r.score >= threshold}

ContainedIn(r, o) == r.start >= o.start /\ r.end <= o.end

\* AnalyzerEngine's remove_duplicates visits results by
\* (-score, start, -(end - start)).
VisitedBefore(o, r) ==
    \/ o.score > r.score
    \/ o.score = r.score /\ o.start < r.start
    \/ o.score = r.score /\ o.start = r.start /\ o.end > r.end

\* remove_duplicates keeps no result contained in a same-type result kept
\* before it.
Deduplicated(R) ==
    \A r, o \in R :
        (r # o /\ r.entity_type = o.entity_type /\ ContainedIn(r, o))
            => ~VisitedBefore(o, r)

\* AnalyzerEngine.analyze, as a set of possible result sets.
Analyze(txt, entities, threshold) ==
    {R \in SubsetsUpTo(Candidates(txt, entities, threshold), MaxSpans) :
        Deduplicated(R)}

\* The order of detect's list: analyze's order, stably sorted by start.
ListedBefore(x, y) ==
    \/ x.start < y.start
    \/ x.start = y.start /\ x.score > y.score
    \/ x.start = y.start /\ x.score = y.score /\ x.end > y.end

DetectOrders(R) ==
    {o \in [1..Cardinality(R) -> R] :
        /\ \A i, j \in DOMAIN o : i # j => o[i] # o[j]
        /\ \A i, j \in DOMAIN o : i < j => ~ListedBefore(o[j], o[i])}

DetectionResult(txt, r) ==
    [entity_type |-> r.entity_type, start |-> r.start, end |-> r.end,
     score |-> r.score, text |-> PySlice(txt, r.start, r.end)]

\* PIIDetector.detect, as the set of lists it may return.
detect(txt, types, score_threshold) ==
    UNION {{[i \in DOMAIN o |-> DetectionResult(txt, o[i])] : o \in DetectOrders(R)} :
              R \in Analyze(txt, EntitiesToDetect(types), score_threshold)}

(***************************************************************************)
(* presidio_anonymizer's AnonymizerEngine.anonymize, as PIIAnonymizer calls *)
(* it (default conflict resolution, one consistent_replace operator per     *)
(* entity type).  Entities are mutable objects: `objs` holds them, lists    *)
(* hold their indices.                                                      *)
(***************************************************************************)
RecognizerResult(d) ==
    [entity_type |-> d.entity_type, start |-> d.start, end |-> d.end,
     score |-> d.score]

\* list.remove(result) on a list of objects: equality is by value.
RemoveObj(l, objs, x) ==
    LET at == {i \in DOMAIN l : objs[l[i]] = x} IN
    IF at = {} THEN l
    ELSE SubSeq(l, 1, Min(at) - 1) \o SubSeq(l, Min(at) + 1, Len(l))

Intersects(a, b) ==
    IF a.end < b.start \/ b.end < a.start THEN 0
    ELSE (IF a.end < b.end THEN a.end ELSE b.end)
         - (IF a.start > b.start THEN a.start ELSE b.start)

\* result.has_conflict(other)
HasConflict(r, o) ==
    IF r.start = o.start /\ r.end = o.end
        THEN r.score <= o.score
        ELSE o.start <= r.start /\ o.end >= r.end

\* First loop of _remove_conflicts_and_get_text_manipulation_data: a result
\* that intersects a same-type element is merged into that element.
RECURSIVE MergeSimilar(_, _, _, _)
MergeSimilar(objs, other_elements, tmp, i) ==
    IF i > Len(objs) THEN [objs |-> objs, kept |-> tmp]
    ELSE
        LET res == objs[i]
            others == RemoveObj(other_elements, objs, res)
            hits == {k \in DOMAIN others :
                        /\ objs[others[k]].entity_type = res.entity_type
                        /\ Intersects(res, objs[others[k]]) # 0}
        IN IF hits # {}
              THEN LET o == others[Min(hits)]
                       merged == [objs[o] EXCEPT
                           !.start = IF res.start < @ THEN res.start ELSE @,
                           !.end = IF res.end > @ THEN res.end ELSE @,
                           !.score = IF res.score > @ THEN res.score ELSE @]
                   IN MergeSimilar([objs EXCEPT ![o] = merged], others, tmp, i + 1)
              ELSE MergeSimilar(objs, Append(others, i), Append(tmp, i), i + 1)

\* Second loop: a result in conflict with a remaining element is dropped.
RECURSIVE RemoveConflicts(_, _, _, _, _)
RemoveConflicts(objs, tmp, other_elements, unique, j) ==
    IF j > Len(tmp) THEN [k \in DOMAIN unique |-> objs[unique[k]]]
    ELSE
        LET res == objs[tmp[j]]
            others == RemoveObj(other_elements, objs, res)
            conflicted == \E k \in DOMAIN others : HasConflict(res, objs[others[k]])
        IN IF conflicted
              THEN RemoveConflicts(objs, tmp, others, unique, j + 1)
              ELSE RemoveConflicts(objs, tmp, Append(others, tmp[j]),
                                   Append(unique, tmp[j]), j + 1)

RemoveConflictsAndGetData(analyzer_results) ==
    LET m == MergeSimilar(analyzer_results,
                          [i \in DOMAIN analyzer_results |-> i], <<>>, 1)
    IN RemoveConflicts(m.objs, m.kept, m.kept, <<>>, 1)

\* re.search(r"^( )+$", s)
OnlySpaces(s) == s # <<>> /\ \A k \in DOMAIN s : s[k] = " "

\* _merge_entities_with_whitespace_between: a result of the type of the
\* previous one, with only spaces between the two, absorbs the previous one.
RECURSIVE MergeWhitespace(_, _, _, _)
MergeWhitespace(txt, results, merged_results, i) ==
    IF i > Len(results) THEN merged_results
    ELSE
        LET prev_result == merged_results[Len(merged_results)]
            absorb == /\ i > 1
                      /\ prev_result.entity_type = results[i].entity_type
                      /\ OnlySpaces(PySlice(txt, prev_result.end, results[i].start))
            res == IF absorb THEN [results[i] EXCEPT !.start = prev_result.start]
                             ELSE results[i]
            kept == IF absorb THEN RemoveFirst(merged_results, prev_result)
                              ELSE merged_results
        IN MergeWhitespace(txt, results, Append(kept, res), i + 1)

\* sorted(pii_entities, reverse=True): by (start, end), descending, stable.
EntityLess(a, b) == a.start < b.start \/ (a.start = b.start /\ a.end < b.end)

RECURSIVE SortedReverse(_)
SortedReverse(s) ==
    IF s = <<>> THEN <<>>
    ELSE LET rest == SortedReverse(SubSeq(s, 1, Len(s) - 1))
             x == s[Len(s)]
             k == Cardinality({i \in DOMAIN rest : ~EntityLess(rest[i], x)})
         IN SubSeq(rest, 1, k) \o <<x>> \o SubSeq(rest, k + 1, Len(rest))

\* sorted(..., key=lambda i: i.start): ascending, stable.
RECURSIVE SortedByStart(_)
SortedByStart(s) ==
    IF s = <<>> THEN <<>>
    ELSE LET rest == SortedByStart(SubSeq(s, 1, Len(s) - 1))
             x == s[Len(s)]
             k == Cardinality({i \in DOMAIN rest : rest[i].start <= x.start})
         IN SubSeq(rest, 1, k) \o <<x>> \o SubSeq(rest, k + 1, Len(rest))

\* A get_or_create that reports every call as a creation.
GetOrCreateAlwaysNew(tbl, original_value, entity_type, generated, now) ==
    LET h == compute_hash(original_value, entity_type)
        found == Matching(tbl, h, entity_type)
    IN IF found # {}
          THEN LET m == CHOOSE r \in found : TRUE IN
               [tbl |-> Incremented(tbl, m, now),
                substitute |-> m.substitute, is_new |-> TRUE]
          ELSE [tbl |-> tbl \cup {NewMapping(tbl, h, entity_type, generated, now)},
                substitute |-> generated, is_new |-> TRUE]

\* MappingStore.get_or_create run to its end with no other session in
\* between; `generated` is what generator_func would return.
get_or_create(tbl, original_value, entity_type, generated, now) ==
    LET h == compute_hash(original_value, entity_type)
        found == Matching(tbl, h, entity_type)
    IN IF found # {}
          THEN LET m == CHOOSE r \in found : TRUE IN
               [tbl |-> Incremented(tbl, m, now),
                substitute |-> m.substitute, is_new |-> FALSE]
          ELSE [tbl |-> tbl \cup {NewMapping(tbl, h, entity_type, generated, now)},
                substitute |-> generated, is_new |-> TRUE]

\* One turn of EngineBase._operate: ConsistentReplaceOperator.operate has
\* answered `goc` for the entity, TextReplaceBuilder splices its substitute
\* into the output text.
OperateOn(txt, entity, acc, goc) ==
    LET text_to_operate_on == PySlice(txt, entity.start, entity.end)
        end_of_text == IF entity.end < acc.last_replacement_index
                          THEN entity.end ELSE acc.last_replacement_index
        before_text == PySlice(acc.output_text, 0, entity.start)
        after_text == PySlice(acc.output_text, end_of_text, Len(acc.output_text))
        changed_text == Chars(goc.substitute)
        item == [index_from_end |-> Len(changed_text) + Len(after_text),
                 entity_type |-> entity.entity_type,
                 text |-> goc.substitute,
                 operated_on |-> text_to_operate_on]
    IN [tbl |-> goc.tbl,
        now |-> acc.now + 1,
        output_text |-> before_text \o changed_text \o after_text,
        last_replacement_index |-> entity.start,
        items |-> Append(acc.items, item),
        new_mappings |-> IF goc.is_new
                            THEN Append(acc.new_mappings, entity.entity_type)
                            ELSE acc.new_mappings,
        existing_mappings |-> IF goc.is_new
                            THEN acc.existing_mappings
                            ELSE Append(acc.existing_mappings, entity.entity_type)]

\* EngineBase._operate with ConsistentReplaceOperator.operate and
\* TextReplaceBuilder: the entities from the last to the first.
RECURSIVE Operate(_, _, _, _, _)
Operate(txt, entities, generated, k, acc) ==
    IF k > Len(entities) THEN acc
    ELSE Operate(txt, entities, generated, k + 1,
                 OperateOn(txt, entities[k], acc,
                           get_or_create(acc.tbl,
                                         Str(PySlice(txt, entities[k].start,
                                                     entities[k].end)),
                                         entities[k].entity_type,
                                         generated[k], acc.now)))

\* EngineResult.normalize_item_indexes
NormalizedItem(item, output_text) ==
    [start |-> Len(output_text) - item.index_from_end,
     end |-> Len(output_text) - item.index_from_end + Len(Chars(item.text)),
     entity_type |-> item.entity_type,
     text |-> item.text,
     operated_on |-> item.operated_on]

\* EngineResult: the output text, the items with their indices normalised,
\* and what the operators left in the store and in the two lists.
EngineResult(done) ==
    [text |-> done.output_text,
     items |-> [i \in DOMAIN done.items |-> NormalizedItem(done.items[i], done.output_text)],
     tbl |-> done.tbl, now |-> done.now,
     new_mappings |-> done.new_mappings,
     existing_mappings |-> done.existing_mappings]

\* AnonymizerEngine.anonymize
EngineAnonymize(txt, analyzer_results, tbl, now, generated) ==
    EngineResult(
        Operate(txt,
                SortedReverse(MergeWhitespace(txt,
                                  RemoveConflictsAndGetData(analyzer_results),
                                  <<>>, 1)),
                generated, 1,
                [tbl |-> tbl, now |-> now, output_text |-> txt,
                 last_replacement_index |-> Len(txt), items |-> <<>>,
                 new_mappings |-> <<>>, existing_mappings |-> <<>>]))

\* SubstitutionInfo(...) for one (detection, item) pair of the zip.
SubstitutionInfo(detection, item) ==
    [start |-> detection.start, end |-> detection.end,
     entity_type |-> detection.entity_type,
     original_length |-> detection.end - detection.start,
     substitute |-> item.text]

AuditLog(operation, types, input_length, entities_detected, entities_anonymized) ==
    [operation |-> operation, entity_types_processed |-> types,
     input_length |-> input_length, entities_detected |-> entities_detected,
     entities_anonymized |-> entities_anonymized]

NoResult == [anonymized_text |-> <<>>, substitutions |-> <<>>,
             entities_detected |-> 0, entities_anonymized |-> 0,
             new_mappings_created |-> 0, existing_mappings_used |-> 0]

\* The end of PIIAnonymizer.anonymize: the zip of the sorted detections with
\* the sorted items, the audit row and the AnonymizationResult.
AnonymizationResult(txt, found, engine_result) ==
    LET sorted_detections == SortedByStart(found)
        sorted_items == SortedByStart(engine_result.items)
        n == IF Len(sorted_items) < Len(sorted_detections)
                THEN Len(sorted_items) ELSE Len(sorted_detections)
        substitutions == [i \in 1..n |->
                             SubstitutionInfo(sorted_detections[i], sorted_items[i])]
    IN [result |-> [anonymized_text |-> engine_result.text,
                    substitutions |-> substitutions,
                    entities_detected |-> Len(found),
                    entities_anonymized |-> Len(substitutions),
                    new_mappings_created |-> Len(engine_result.new_mappings),
                    existing_mappings_used |-> Len(engine_result.existing_mappings)],
        items |-> sorted_items, tbl |-> engine_result.tbl,
        now |-> engine_result.now,
        audit |-> AuditLog("anonymize", {found[i].entity_type : i \in DOMAIN found},
                           Len(txt), Len(found), Len(substitutions))]

\* An anonymize that answers an empty text when nothing is detected.
AnonymizeOnBlank(tbl, now, txt, types, found, generated) ==
    IF found = <<>>
       THEN [result |-> NoResult,
             items |-> <<>>, tbl |-> tbl, now |-> now,
             audit |-> AuditLog("anonymize", IF Truthy(types) THEN Elems(types.list) ELSE {},
                                Len(txt), 0, 0)]
       ELSE AnonymizationResult(txt, found,
                EngineAnonymize(txt, [i \in DOMAIN found |-> RecognizerResult(found[i])],
                                tbl, now, generated))

\* PIIAnonymizer.anonymize on the store `tbl` at time `now`, given what
\* detect returned and what the generator would return for each entity the
\* engine operates on.
AnonymizeOn(tbl, now, txt, types, found, generated) ==
    IF found = <<>>
       THEN [result |-> [NoResult EXCEPT !.anonymized_text = txt],
             items |-> <<>>, tbl |-> tbl, now |-> now,
             audit |-> AuditLog("anonymize", IF Truthy(types) THEN Elems(types.list) ELSE {},
                                Len(txt), 0, 0)]
       ELSE AnonymizationResult(txt, found,
                EngineAnonymize(txt, [i \in DOMAIN found |-> RecognizerResult(found[i])],
                                tbl, now, generated))

\* PIIAnonymizer.anonymize on the committed table.
anonymize(txt, types, found, generated) ==
    AnonymizeOn(rows, clock, txt, types, found, generated)

(****************************************************************************)
(* ConfigService and the configuration routes.                              *)
(****************************************************************************)
\* cli.py: DEFAULT_ENTITY_TYPES, the types seed_default_config enables.
DEFAULT_ENTITY_TYPES ==
    {"PERSON", "EMAIL_ADDRESS", "PHONE_NUMBER", "CREDIT_CARD", "US_SSN",
     "IP_ADDRESS", "LOCATION", "STREET_ADDRESS", "DATE_TIME", "GUID"}

\* The order of config.entity_types (by primary key).
ConfigTypeOrder ==
    <<"PERSON", "EMAIL_ADDRESS", "PHONE_NUMBER", "CREDIT_CARD", "US_SSN",
      "IP_ADDRESS", "LOCATION", "STREET_ADDRESS", "DATE_TIME", "GUID", "NRP">>

\* An EntityTypeConfig row.
EntityTypeConfig(enabled, strategy, strategy_params) ==
    [enabled |-> enabled, strategy |-> strategy, strategy_params |-> strategy_params]

\* The configuration seed_default_config creates, after earlier updates
\* have left exactly the types of `on` enabled.
SeededConfig(on) ==
    [id |-> 1, confidence_threshold |-> 7, locale |-> "en_US", updated_at |-> 0,
     entity_types |-> [t \in DEFAULT_ENTITY_TYPES |->
                          EntityTypeConfig(IF t \in on THEN "True" ELSE "False",
                                           "replace", PyNone)]]

InitialConfigs ==
    {SeededConfig(on) : on \in {DEFAULT_ENTITY_TYPES, {"PERSON"}, {"LOCATION"}, {}}}

\* ConfigService.get_enabled_entity_types.  bool(ec.enabled) is what the
\* comprehension's `if` tests.
get_enabled_entity_types(cfg) ==
    IF cfg = NoConfig THEN <<>>
    ELSE SelectSeq(ConfigTypeOrder,
                   LAMBDA t : /\ t \in DOMAIN cfg.entity_types
                              /\ cfg.entity_types[t].enabled = "True")

\* routes/anonymize.py: _get_config_defaults (the locale goes to the
\* generator only).
get_config_defaults(cfg) ==
    IF cfg # NoConfig
    THEN [default_types |-> IF get_enabled_entity_types(cfg) # <<>>
                               THEN Some(get_enabled_entity_types(cfg)) ELSE None,
          default_threshold |-> cfg.confidence_threshold,
          locale |-> cfg.locale]
    ELSE [default_types |-> None, default_threshold |-> 7, locale |-> "en_US"]

\* The route's two conditional expressions: the request's value when it is
\* not None, the default otherwise.
EffectiveTypes(types, cfg) ==
    IF types.given THEN types ELSE get_config_defaults(cfg).default_types

EffectiveThreshold(threshold, cfg) ==
    IF threshold # Omitted THEN threshold ELSE get_config_defaults(cfg).default_threshold

\* PUT /config requests: EntityTypeConfigUpdate and ConfigUpdateRequest.
UpdateTypes == {"", "PERSON", "LOCATION", "NRP"}

EntityTypeConfigUpdates ==
    [entity_type : UpdateTypes, enabled : {PyNone, "True", "False"},
     strategy : {PyNone, "mask"}, strategy_params : {PyNone, "{p}"}]

ConfigUpdateRequests ==
    [confidence_threshold : {Omitted, 5, ScoreOne + 2},
     locale : {PyNone, "de_DE"},
     entity_types : SeqsUpTo(EntityTypeConfigUpdates, 1)]

\* ConfigUpdateRequest's field constraints (422 otherwise).
ConfigUpdateRequest(r) ==
    r.confidence_threshold = Omitted
        \/ (r.confidence_threshold >= 0 /\ r.confidence_threshold <= ScoreOne)

\* routes/config.py update_config: the dict built for each update has all
\* four keys, an omitted field as None.
UpdateDict(et) ==
    [keys |-> {"entity_type", "enabled", "strategy", "strategy_params"},
     entity_type |-> et.entity_type, enabled |-> et.enabled,
     strategy |-> et.strategy, strategy_params |-> et.strategy_params]

\* update.get(key, default)
DictGet(update, key, default) == IF key \in update.keys THEN update[key] ELSE default

\* One turn of ConfigService.update_config's loop over entity_type_updates.
UpdateEntityType(entity_configs, update) ==
    IF update.entity_type = "" THEN entity_configs
    ELSE IF update.entity_type \in DOMAIN entity_configs
    THEN [entity_configs EXCEPT ![update.entity_type] =
             EntityTypeConfig(DictGet(update, "enabled", @.enabled),
                              DictGet(update, "strategy", @.strategy),
                              DictGet(update, "strategy_params", @.strategy_params))]
    ELSE [t \in DOMAIN entity_configs \cup {update.entity_type} |->
             IF t = update.entity_type
                THEN EntityTypeConfig(DictGet(update, "enabled", "True"),
                                      DictGet(update, "strategy", "replace"),
                                      DictGet(update, "strategy_params", PyNone))
                ELSE entity_configs[t]]

RECURSIVE UpdateEntityTypes(_, _)
UpdateEntityTypes(entity_configs, updates) ==
    IF updates = <<>> THEN entity_configs
    ELSE UpdateEntityTypes(UpdateEntityType(entity_configs, Head(updates)), Tail(updates))

\* ConfigService.update_config up to the commit: the configuration object
\* as the session holds it.
update_config(cfg, r, now) ==
    [id |-> cfg.id,
     confidence_threshold |-> IF r.confidence_threshold # Omitted
                                 THEN r.confidence_threshold ELSE cfg.confidence_threshold,
     locale |-> IF r.locale # PyNone THEN r.locale ELSE cfg.locale,
     updated_at |-> now,
     entity_types |-> UpdateEntityTypes(cfg.entity_types,
                          [i \in DOMAIN r.entity_types |-> UpdateDict(r.entity_types[i])])]

\* enabled and strategy are NOT NULL columns: the flush of commit() fails.
NotNullViolation(cfg) ==
    \E t \in DOMAIN cfg.entity_types :
        cfg.entity_types[t].enabled = PyNone \/ cfg.entity_types[t].strategy = PyNone

\* PUT /config.  422 when the request does not validate; 400 on the
\* service's ValueError (no active configuration); 500 when the commit
\* fails, the session is closed and nothing is stored; 200 otherwise.
UpdateConfig ==
    /\ cfg_updates < MaxConfigUpdates
    /\ cfg_updates' = cfg_updates + 1
    /\ cfg_prev' = config
    /\ \E r \in ConfigUpdateRequests :
          \E status \in {IF ~ConfigUpdateRequest(r) THEN 422
                         ELSE IF config = NoConfig THEN 400
                         ELSE IF NotNullViolation(update_config(config, r, cfg_updates + 1))
                                 THEN 500 ELSE 200} :
             /\ cfg_last' = [request |-> r, status |-> status]
             /\ config' = IF status = 200
                             THEN update_config(config, r, cfg_updates + 1)
                             ELSE config
    /\ UNCHANGED <<storeVars, hashVars, anonVars, genVars>>

\* AnonymizeRequest: text of 1 to 1,000,000 characters, confidence_threshold
\* left out or in [0, 1]; entity_types is any list of strings.
TextMaxLength == 1000000

AnonymizeRequest(txt, threshold) ==
    /\ Len(txt) >= 1
    /\ Len(txt) <= TextMaxLength
    /\ threshold = Omitted \/ (threshold >= 0 /\ threshold <= ScoreOne)

\* The route, once the request is valid and the defaults are resolved:
\* detect, rewrite through the engine, commit, report and write the audit
\* row.  A recognizer that raises inside AnalyzerEngine.analyze is caught
\* by nothing before the route's `except Exception`, which answers 500
\* ("failed").
AnonymizeResolved(txt, types, threshold) ==
    /\ effective' = [entity_types |-> types, confidence_threshold |-> threshold]
    /\ \/ /\ aPc' = "failed"
          /\ UNCHANGED <<detections, items, result, rows, txn, clock, audit_log>>
       \/ /\ aPc' = "done"
          /\ \E found \in detect(txt, types, threshold) :
               \E generated \in [1..MaxSpans -> Generated] :
                 \E out \in {anonymize(txt, types, found, generated)} :
                   /\ detections' = found
                   /\ items' = out.items
                   /\ result' = out.result
                   /\ rows' = out.tbl
                   /\ txn' = out.tbl
                   /\ clock' = out.now
                   /\ audit_log' = Append(audit_log, out.audit)

\* POST /anonymize for a request drawn from the given sets: the request is
\* validated (422 otherwise), entity_types and confidence_threshold left
\* out are taken from the active configuration, then the anonymizer runs.
anonymize_text(texts, typelists, thresholds) ==
    /\ started < MaxAnonRequests
    /\ wlock = 0
    /\ \E txt \in texts, types \in typelists, threshold \in thresholds :
         /\ text' = txt
         /\ entity_types' = types
         /\ confidence_threshold' = threshold
         /\ IF ~AnonymizeRequest(txt, threshold)
               THEN /\ aPc' = "rejected"
                    /\ UNCHANGED <<detections, items, result, rows, txn, clock, audit_log,
                                   effective>>
               ELSE \E eff_types \in {EffectiveTypes(types, config)},
                       eff_threshold \in {EffectiveThreshold(threshold, config)} :
                       AnonymizeResolved(txt, eff_types, eff_threshold)
    /\ started' = started + 1
    /\ UNCHANGED <<wlock, pc, req, existing, snap, ret, err, first, last, updated, pending,
                 hashVars, genVars, cfgVars, batch>>

\* Requests that give their confidence_threshold.
AnonymizeText == anonymize_text(RequestTexts, EntityTypeLists, RequestThresholds)

(***************************************************************************)
(* POST /anonymize/batch.                                                   *)
(***************************************************************************)
MaxBatch == 2
MaxBatchTextLen == 1

\* The texts of a batch: the schema puts no bound on the length of one text.
BatchTexts == {<<>>} \cup {t \in Texts : Len(t) <= MaxBatchTextLen}
BatchTextLists == UNION {[1..n -> BatchTexts] : n \in 0..MaxBatch}

\* BatchAnonymizeRequest and the route's own checks: 1 to 1000 texts, each
\* any string, confidence_threshold in [0, 1]; entity_types is any list.
BatchMaxTexts == 1000

BatchAnonymizeRequest(texts, threshold) ==
    /\ texts # <<>>
    /\ Len(texts) <= BatchMaxTexts
    /\ threshold = Omitted \/ (threshold >= 0 /\ threshold <= ScoreOne)

RECURSIVE SumSeq(_)
SumSeq(s) == IF s = <<>> THEN 0 ELSE Head(s) + SumSeq(Tail(s))

\* A loop that runs every text against the store as it was before the batch.
BatchAdvanceStale(acc, out, found) ==
    [tbl |-> acc.tbl, now |-> acc.now,
     results |-> Append(acc.results, out.result),
     found |-> Append(acc.found, found),
     stores |-> Append(acc.stores, [tbl |-> out.tbl, now |-> out.now]),
     total_detected |-> acc.total_detected + out.result.entities_detected]

\* One turn of anonymize_batch's loop: anonymize(text, log_operation=False)
\* has committed, its result is appended and its count added.
BatchAdvance(acc, out, found) ==
    [tbl |-> out.tbl, now |-> out.now,
     results |-> Append(acc.results, out.result),
     found |-> Append(acc.found, found),
     stores |-> Append(acc.stores, [tbl |-> out.tbl, now |-> out.now]),
     total_detected |-> acc.total_detected + out.result.entities_detected]

\* What the batch leaves behind after its first k - 1 texts.
BatchRecord(texts, acc) ==
    [texts |-> texts, found |-> acc.found,
     results |-> acc.results, stores |-> acc.stores,
     before |-> [tbl |-> rows, now |-> clock],
     logged |-> audit_log,
     total_detected |-> acc.total_detected]

\* PIIAnonymizer.anonymize_batch: the loop from text k on, then the one
\* audit row of the batch.  A recognizer that raises on text k ends the
\* request with 500: the texts before it are committed, no audit row is
\* written.
RECURSIVE anonymize_batch(_, _, _, _, _)
anonymize_batch(k, texts, types, threshold, acc) ==
    IF k > Len(texts)
    THEN /\ aPc' = "batch_done"
         /\ batch' = BatchRecord(texts, acc)
         /\ rows' = acc.tbl
         /\ txn' = acc.tbl
         /\ clock' = acc.now
         /\ audit_log' = Append(audit_log,
               AuditLog("batch_anonymize",
                        IF Truthy(types) THEN Elems(types.list) ELSE {},
                        SumSeq([i \in DOMAIN texts |-> Len(texts[i])]),
                        acc.total_detected,
                        SumSeq([i \in DOMAIN acc.results |->
                                   acc.results[i].entities_anonymized])))
    ELSE \/ /\ aPc' = "batch_failed"
            /\ batch' = BatchRecord(texts, acc)
            /\ rows' = acc.tbl
            /\ txn' = acc.tbl
            /\ clock' = acc.now
            /\ UNCHANGED audit_log
         \/ \E found \in detect(texts[k], types, threshold),
               generated \in [1..MaxSpans -> Generated] :
              \E out \in {AnonymizeOn(acc.tbl, acc.now, texts[k], types,
                                      found, generated)} :
                \E nxt \in {BatchAdvance(acc, out, found)} :
                  \E kk \in {k + 1} :
                    anonymize_batch(kk, texts, types, threshold, nxt)

\* POST /anonymize/batch for a request drawn from the given sets: the
\* request is validated (422 or 400 otherwise), the defaults are taken from
\* the active configuration, then every text in turn, then one audit row.
batch_anonymize_texts(textlists, typelists, thresholds) ==
    /\ started < MaxAnonRequests
    /\ wlock = 0
    /\ \E texts \in textlists, types \in typelists, threshold \in thresholds :
         /\ entity_types' = types
         /\ confidence_threshold' = threshold
         /\ IF ~BatchAnonymizeRequest(texts, threshold)
               THEN /\ aPc' = "batch_rejected"
                    /\ batch' = [batch EXCEPT !.texts = texts]
                    /\ UNCHANGED <<rows, txn, clock, audit_log, effective>>
               ELSE \E acc0 \in {[tbl |-> rows, now |-> clock, results |-> <<>>,
                                  found |-> <<>>, stores |-> <<>>,
                                  total_detected |-> 0]},
                       eff_types \in {EffectiveTypes(types, config)},
                       eff_threshold \in {EffectiveThreshold(threshold, config)} :
                       /\ effective' = [entity_types |-> eff_types,
                                        confidence_threshold |-> eff_threshold]
                       /\ anonymize_batch(1, texts, eff_types, eff_threshold, acc0)
    /\ started' = started + 1
    /\ UNCHANGED <<wlock, pc, req, existing, snap, ret, err, first, last, updated, pending,
                 hashVars, genVars, cfgVars,
                   text, detections, items, result>>

\* Requests that give their confidence_threshold.
AnonymizeBatch == batch_anonymize_texts(BatchTextLists, EntityTypeLists, RequestThresholds)

AnonNext ==
    \/ AnonymizeText
    \/ AnonymizeBatch

SpecAnon == Init /\ [][AnonNext]_vars

(***************************************************************************)
(* SpecConfig: PUT /config and requests that may leave out entity_types or *)
(* confidence_threshold, on a seeded configuration.                        *)
(***************************************************************************)
ConfigTexts == {t \in RequestTexts : Len(t) <= 1}
ConfigTextLists == [1..1 -> ConfigTexts]
ConfigTypeLists == {None, Some(<<"LOCATION">>)}
ConfigThresholds == {Omitted, 9}

InitConfig ==
    /\ InitStore
    /\ InitHashIdle
    /\ InitAnonIdle
    /\ InitGenIdle
    /\ config \in InitialConfigs
    /\ cfg_prev = config
    /\ cfg_last = [request |-> NoConfigRequest, status |-> 0]
    /\ cfg_updates = 0

AnonymizeTextDefaults == anonymize_text(ConfigTexts, ConfigTypeLists, ConfigThresholds)

AnonymizeBatchDefaults ==
    batch_anonymize_texts(ConfigTextLists, ConfigTypeLists, ConfigThresholds)

ConfigNext ==
    \/ UpdateConfig
    \/ AnonymizeTextDefaults
    \/ AnonymizeBatchDefaults

SpecConfig == InitConfig /\ [][ConfigNext]_vars

(***************************************************************************)
(* generators/synthetic.py.  Three sources of randomness: self._faker,     *)
(* which generate reseeds from original_hash; the process-wide `random`    *)
(* module and uuid4, which nothing reseeds, so that each of their draws is *)
(* any value of the range.                                                 *)
(***************************************************************************)
MaxGenCalls == 2

\* What a provider or a draw can return for a type; a text may hold any of
\* these values too.
PoolValues == {"v1", "v2"}

Hashes == {"", "h1", "h2"}

\* random.randint(lo, hi): the ends of the range and 10 when it is inside.
RandInts(lo, hi) == {lo, hi} \cup ({10} \cap lo..hi)

\* The Faker draw after seed_instance(int(md5(original_hash)[:8], 16)).
SeededDraw(original_hash) == IF original_hash = "h1" THEN "v1" ELSE "v2"

\* A value self._faker returns in this call: fixed by the seed when
\* original_hash is truthy, any value otherwise.
FakerDraws(original_hash) ==
    IF original_hash # "" THEN {SeededDraw(original_hash)} ELSE PoolValues

\* A value drawn through the `random` module or uuid4.
RandomDraws == PoolValues

(***************************************************************************)
(* IPv4 arithmetic, octet by octet.                                        *)
(***************************************************************************)
Pow2(n) == IF n = 0 THEN 1 ELSE IF n = 1 THEN 2 ELSE IF n = 2 THEN 4
           ELSE IF n = 3 THEN 8 ELSE IF n = 4 THEN 16 ELSE IF n = 5 THEN 32
           ELSE IF n = 6 THEN 64 ELSE IF n = 7 THEN 128 ELSE 256

\* The bits of octet k (1..4) that a prefix of length n covers.
KeptBits(n, k) ==
    IF n >= 8 * k THEN 8 ELSE IF n <= 8 * (k - 1) THEN 0 ELSE n - 8 * (k - 1)

\* ipaddress.ip_network(..., strict=False): the host bits are cleared.
NetworkOf(o, n) ==
    [k \in 1..4 |-> o[k] - (o[k] % Pow2(8 - KeptBits(n, k)))]

\* A classification that knows 10.0.0.0/8 only.
IsPrivateTenOnly(o) == o[1] = 10

\* is_private_ip: RFC1918_PRIVATE_RANGES and INTERNAL_RANGES.
is_private_ip(o) ==
    \/ o[1] = 10
    \/ o[1] = 172 /\ o[2] \in 16..31
    \/ o[1] = 192 /\ o[2] = 168
    \/ o[1] = 127
    \/ o[1] = 169 /\ o[2] = 254

\* ipaddress: IPv4Address.is_private, is_loopback, is_link_local,
\* is_multicast, is_reserved.
PyIsPrivate(o) ==
    \/ o[1] = 0
    \/ is_private_ip(o)
    \/ o[1] = 192 /\ o[2] = 0 /\ o[3] \in {0, 2}
    \/ o[1] = 198 /\ o[2] \in {18, 19}
    \/ o[1] = 198 /\ o[2] = 51 /\ o[3] = 100
    \/ o[1] = 203 /\ o[2] = 0 /\ o[3] = 113
    \/ o[1] >= 240
PyIsLoopback(o) == o[1] = 127
PyIsLinkLocal(o) == o[1] = 169 /\ o[2] = 254
PyIsMulticast(o) == o[1] \in 224..239
PyIsReserved(o) == o[1] >= 240

\* is_network_address: "/" in the string and ip_network(strict=True) accepts.
is_network_address(v) ==
    /\ v.octets # <<>>
    /\ v.prefix \in 0..32
    /\ NetworkOf(v.octets, v.prefix) = v.octets

generate_private_ipv4 ==
    {<<10, b, c, d>> : b \in RandInts(0, 255), c \in RandInts(0, 255),
                       d \in RandInts(1, 254)}
    \cup {<<172, b, c, d>> : b \in RandInts(16, 31), c \in RandInts(0, 255),
                             d \in RandInts(1, 254)}
    \cup {<<192, 168, c, d>> : c \in RandInts(0, 255), d \in RandInts(1, 254)}

\* generate_public_ipv4: the address one turn of the loop draws, and the
\* test that sends the loop round again.
PublicIpv4Draws ==
    {<<a, b, c, d>> : a \in RandInts(1, 223), b \in RandInts(0, 255),
                      c \in RandInts(0, 255), d \in RandInts(1, 254)}

PublicIpv4Rejected(o) ==
    PyIsPrivate(o) \/ PyIsLoopback(o) \/ PyIsLinkLocal(o)
        \/ PyIsMulticast(o) \/ PyIsReserved(o)

\* What the loop returns, when it returns: a draw that passed the test.
generate_public_ipv4 == {o \in PublicIpv4Draws : ~PublicIpv4Rejected(o)}

\* generate_private_network: the octets by prefix length, then
\* ip_network(strict=False) clears the host bits.
generate_private_network(prefix_len) ==
    LET drawn ==
          IF prefix_len <= 8
             THEN {<<10, b, c, 0>> : b \in RandInts(0, 255), c \in RandInts(0, 255)}
          ELSE IF prefix_len <= 12
             THEN {<<172, b, c, 0>> : b \in RandInts(16, 31), c \in RandInts(0, 255)}
          ELSE IF prefix_len <= 16
             THEN {<<192, 168, c, 0>> : c \in RandInts(0, 255)}
                  \cup {<<10, b, c, 0>> : b \in RandInts(0, 255), c \in RandInts(0, 255)}
          ELSE {<<192, 168, c, 0>> : c \in RandInts(0, 255)}
               \cup {<<10, b, c, 0>> : b \in RandInts(0, 255), c \in RandInts(0, 255)}
               \cup {<<172, b, c, 0>> : b \in RandInts(16, 31), c \in RandInts(0, 255)}
    IN {Ip(NetworkOf(o, prefix_len), prefix_len) : o \in drawn}

\* generate_public_network: an attempt is given up when the drawn address
\* or the network's address is not public; when every one of the attempts
\* is given up, the fallback takes a first octet from its list.
PublicFirstOctets == {45, 52, 54, 63, 74, 89, 104, 142, 157, 185, 199, 216}

max_attempts == 200

\* The address one attempt draws, and the two tests that give it up.
PublicNetworkDraws ==
    {<<a, b, c, d>> : a \in RandInts(1, 223), b \in RandInts(0, 255),
                      c \in RandInts(0, 255), d \in RandInts(0, 255)}

PublicNetworkSkipped(o, prefix_len) ==
    \/ PyIsPrivate(o) \/ PyIsReserved(o) \/ PyIsLoopback(o) \/ PyIsMulticast(o)
    \/ PyIsPrivate(NetworkOf(o, prefix_len))
    \/ PyIsReserved(NetworkOf(o, prefix_len))
    \/ PyIsLoopback(NetworkOf(o, prefix_len))

\* The fallback after the last attempt: random.choice of the first octet,
\* two more random octets.
PublicNetworkFallback ==
    {<<a, b, c, 0>> : a \in PublicFirstOctets,
                      b \in RandInts(0, 255), c \in RandInts(0, 255)}

generate_public_network(prefix_len) ==
    {Ip(NetworkOf(o, prefix_len), prefix_len) :
        o \in {x \in PublicNetworkDraws : ~PublicNetworkSkipped(x, prefix_len)}}
    \cup (IF \E x \in PublicNetworkDraws : PublicNetworkSkipped(x, prefix_len)
             THEN {Ip(NetworkOf(o, prefix_len), prefix_len) : o \in PublicNetworkFallback}
             ELSE {})

\* _generate_ip
generate_ip(original) ==
    IF original = NoOriginal THEN {Ip(o, NoPrefix) : o \in generate_public_ipv4}
    ELSE IF is_network_address(original)
       THEN IF is_private_ip(original.octets)
               THEN generate_private_network(original.prefix)
               ELSE generate_public_network(original.prefix)
    ELSE IF original.octets = <<>>
       THEN {Ip(o, NoPrefix) : o \in generate_public_ipv4}
    ELSE IF is_private_ip(original.octets)
       THEN {Ip(o, original.prefix) : o \in generate_private_ipv4}
       ELSE {Ip(o, original.prefix) : o \in generate_public_ipv4}

(***************************************************************************)
(* The dispatch table and generate.                                        *)
(***************************************************************************)
FakerOnly ==
    {"EMAIL_ADDRESS", "PHONE_NUMBER", "CREDIT_CARD", "US_SSN", "US_BANK_NUMBER",
     "US_DRIVER_LICENSE", "US_PASSPORT", "STREET_ADDRESS", "DATE_TIME",
     "MEDICAL_LICENSE", "URL", "IBAN_CODE"}

\* The keys of self._generators.
Generators ==
    FakerOnly \cup {"PERSON", "US_ITIN", "IP_ADDRESS", "LOCATION", "NRP",
                    "CRYPTO", "GUID"}

NrpOptions == {"Group A", "Organization B", "Community C", "Association D"}

\* _generate_default
Placeholder(draw) == Text("<REDACTED_" \o draw \o ">")

\* generate: what it may return.
generate(entity_type, original_value, original_hash) ==
    IF entity_type \notin Generators
       THEN {Placeholder(n) : n \in FakerDraws(original_hash)}
    ELSE IF entity_type \in FakerOnly
       THEN {Text(x) : x \in FakerDraws(original_hash)}
    ELSE IF entity_type = "PERSON"
       THEN {Text(x) : x \in FakerDraws(original_hash)}
            \cup (IF original_value # NoOriginal
                     THEN {Text(x) : x \in RandomDraws} ELSE {})
    ELSE IF entity_type = "LOCATION"
       THEN {Text(x) : x \in FakerDraws(original_hash) \cup RandomDraws}
    ELSE IF entity_type = "NRP"
       THEN {Text(x) : x \in NrpOptions}
    ELSE IF entity_type = "IP_ADDRESS"
       THEN generate_ip(original_value)
    ELSE {Text(x) : x \in RandomDraws}

\* The callers' arguments.
GenEntityTypes == SUPPORTED_ENTITY_TYPES \cup {"FOO"}

IpOriginals ==
    {Ip(<<192, 168, 1, 50>>, 24), Ip(<<8, 8, 8, 8>>, NoPrefix),
     Ip(<<10, 1, 2, 3>>, NoPrefix), Ip(<<127, 0, 0, 1>>, NoPrefix),
     Ip(<<8, 8, 8, 8>>, 24),
     Ip(<<10, 0, 0, 0>>, 8), Ip(<<10, 128, 0, 0>>, 9),
     Ip(<<192, 168, 1, 0>>, 24), Ip(<<8, 8, 8, 0>>, 24), Ip(<<0, 0, 0, 0>>, 0)}

TextOriginals == {NoOriginal, Text("v1"), Text("Group A")}

GenOriginals(entity_type) ==
    IF entity_type = "IP_ADDRESS" THEN IpOriginals \cup TextOriginals
    ELSE TextOriginals

\* One call of SyntheticGenerator.generate.
Generate ==
    /\ gen_calls < MaxGenCalls
    /\ \E entity_type \in GenEntityTypes, original_hash \in Hashes :
         \E original_value \in GenOriginals(entity_type) :
           \E out \in generate(entity_type, original_value, original_hash) :
              /\ gen_prev' = gen_last
              /\ gen_last' = [entity_type |-> entity_type,
                              original_value |-> original_value,
                              original_hash |-> original_hash,
                              result |-> out]
    /\ gen_calls' = gen_calls + 1
    /\ UNCHANGED <<storeVars, hashVars, anonVars, cfgVars, ip_loop>>

SpecGen == Init /\ [][Generate]_vars

(***************************************************************************)
(* SpecLoop: the loops of generate_public_ipv4 and generate_public_network, *)
(* one turn a step.  `rejected` counts the candidates given up; it is not   *)
(* counted beyond MaxCounted.                                               *)
(***************************************************************************)
MaxLoopCalls == 1
MaxCounted == 201

PrefixLengths == 0..32

Counted(n) == IF n < MaxCounted THEN n + 1 ELSE n

\* _generate_ip calls generate_public_ipv4() or generate_public_network(n).
CallGeneratePublic ==
    /\ ip_loop.status \in {"idle", "returned"}
    /\ ip_loop.calls < MaxLoopCalls
    /\ \/ ip_loop' = [fn |-> "generate_public_ipv4", prefix_len |-> NoPrefix,
                      rejected |-> 0, status |-> "running", via |-> "",
                      result |-> <<>>, calls |-> ip_loop.calls + 1]
       \/ \E prefix_len \in PrefixLengths :
             ip_loop' = [fn |-> "generate_public_network", prefix_len |-> prefix_len,
                         rejected |-> 0, status |-> "running", via |-> "",
                         result |-> <<>>, calls |-> ip_loop.calls + 1]
    /\ UNCHANGED <<storeVars, hashVars, anonVars, cfgVars, gen_calls, gen_prev, gen_last>>

\* generate_public_ipv4: one turn of `while True`.
PublicIpv4Turn ==
    /\ ip_loop.status = "running"
    /\ ip_loop.fn = "generate_public_ipv4"
    /\ \E o \in PublicIpv4Draws :
          ip_loop' = IF PublicIpv4Rejected(o)
                        THEN [ip_loop EXCEPT !.rejected = Counted(@)]
                        ELSE [ip_loop EXCEPT !.status = "returned", !.via = "draw",
                                             !.result = o]
    /\ UNCHANGED <<storeVars, hashVars, anonVars, cfgVars, gen_calls, gen_prev, gen_last>>

\* generate_public_network: one turn of `for _ in range(max_attempts)`, or
\* the fallback once the range is used up.
PublicNetworkTurn ==
    /\ ip_loop.status = "running"
    /\ ip_loop.fn = "generate_public_network"
    /\ IF ip_loop.rejected < max_attempts
          THEN \E o \in PublicNetworkDraws :
                  ip_loop' = IF PublicNetworkSkipped(o, ip_loop.prefix_len)
                                THEN [ip_loop EXCEPT !.rejected = @ + 1]
                                ELSE [ip_loop EXCEPT
                                         !.status = "returned", !.via = "draw",
                                         !.result = NetworkOf(o, ip_loop.prefix_len)]
          ELSE \E o \in PublicNetworkFallback :
                  ip_loop' = [ip_loop EXCEPT
                                 !.status = "returned", !.via = "fallback",
                                 !.result = NetworkOf(o, ip_loop.prefix_len)]
    /\ UNCHANGED <<storeVars, hashVars, anonVars, cfgVars, gen_calls, gen_prev, gen_last>>

LoopNext ==
    \/ CallGeneratePublic
    \/ PublicIpv4Turn
    \/ PublicNetworkTurn

SpecLoop == Init /\ [][LoopNext]_vars

(***************************************************************************)
(* Claims about the mapping store.                                         *)
(***************************************************************************)

\* C1 (SpecGoC: get_or_create calls only, no administrative update or
\* delete).  Every get_or_create call that returns gives the substitute the
\* first completed call for that (value, type) returned, and reports
\* is_new exactly when it is that first call.
C1_Consistency ==
    last # NoCall =>
        /\ last.substitute = first[last.key]
        /\ last.is_new <=> last.is_first

\* C1 witness: a later request, in the other session, got the stored
\* substitute of a mapping created by an earlier request.
C1_Witness ==
    /\ last # NoCall
    /\ ~last.is_first
    /\ ~last.is_new
    /\ \E r \in rows : /\ <<r.original_hash, r.entity_type>> = last.key
                       /\ r.substitution_count >= 2
                       /\ r.substitute = last.substitute
    /\ \E s \in Sessions : s # last.session /\ pc[s] = "done" /\ ret[s] # <<>>

\* C2 (Spec: requests and administrative operations interleaved).  No two
\* committed rows share (original_hash, entity_type).
C2_Unique ==
    \A r1, r2 \in rows :
        (r1.original_hash = r2.original_hash /\ r1.entity_type = r2.entity_type)
            => r1 = r2

\* C2 witness: the unique index has rejected a concurrent insert while the
\* table holds the same value under both entity types.
C2_Witness ==
    /\ \E s \in Sessions : err[s] = "IntegrityError"
    /\ Cardinality(rows) = 2
    /\ started = MaxRequests

\* Both sessions have run one request each, for the same single span,
\* nothing else has happened, and neither gave up waiting for the lock.
SameKeyRace(s1, s2) ==
    /\ s1 # s2
    /\ started = 2
    /\ Len(req[s1]) = 1
    /\ req[s1] = req[s2]
    /\ pc[s1] \in {"done", "failed"}
    /\ pc[s2] \in {"done", "failed"}
    /\ err[s1] # "OperationalError"
    /\ err[s2] # "OperationalError"

\* C3 (SpecGoC).  When two sessions have each run get_or_create for the
\* same (value, type), starting from an empty table and in any
\* interleaving, exactly one row is stored and both calls returned the same
\* substitute.
C3_ConcurrentIdempotence ==
    \A s1, s2 \in Sessions :
        SameKeyRace(s1, s2) =>
            /\ Cardinality(rows) = 1
            /\ pc[s1] = "done" /\ pc[s2] = "done"
            /\ ret[s1][1][1] = ret[s2][1][1]

\* C4 (SpecGoC).  A uniqueness-constraint rejection of get_or_create's
\* insert never ends a request: no anonymize call fails with the insert's
\* IntegrityError.
C4_ConflictNeverSurfaced ==
    \A s \in Sessions : err[s] # "IntegrityError"

\* C5 (SpecGoC).  In every step, every committed row keeps its key, its
\* substitute and first_seen, and its substitution_count stays >= 1 and
\* does not decrease.
C5_CountMonotone ==
    [][\A r \in rows : \A q \in rows' :
          q.id = r.id =>
              /\ q.original_hash = r.original_hash
              /\ q.entity_type = r.entity_type
              /\ q.substitute = r.substitute
              /\ q.first_seen = r.first_seen
              /\ q.substitution_count >= 1
              /\ q.substitution_count >= r.substitution_count]_vars

\* C6 (SpecHash).  The same value under two distinct entity types has two
\* distinct digests; under one entity type it has one.
C6_TypeSeparation ==
    hpc = "hashed" => (hd1 = hd2 <=> ht1 = ht2)

\* C6 witness: a value that itself contains the separator and a type name
\* has been hashed under two distinct types.
C6_Witness ==
    /\ hpc = "hashed"
    /\ hv = "a|PERSON"
    /\ ht1 = "PERSON"
    /\ ht2 = "LOCATION"
    /\ hd1 # hd2

(***************************************************************************)
(* Claims about detection and rewriting.                                    *)
(***************************************************************************)

\* C7 (SpecAnon).  The list detect returns is sorted by start and no two of
\* its spans overlap: each span ends at or before the start of every later
\* one.
C7_SortedNonOverlapping ==
    \A i, j \in DOMAIN detections :
        i < j => /\ detections[i].start <= detections[j].start
                 /\ detections[i].end <= detections[j].start

\* C8 (SpecAnon).  Every span detect returns has a score of at least the
\* threshold and, when the caller gave a list of entity types (empty or of
\* unsupported names included), a type that is in that list.
C8_DetectionFilter ==
    \A i \in DOMAIN detections :
        /\ detections[i].score >= confidence_threshold
        /\ entity_types.given =>
               detections[i].entity_type \in Elems(entity_types.list)

\* C9 (SpecAnon).  Every entry of the substitution list lies within the
\* original text, has original_length = end - start, and the original text
\* between its start and end is the value its substitute replaced.
C9_OffsetFidelity ==
    \A i \in DOMAIN result.substitutions :
        LET s == result.substitutions[i] IN
            /\ 0 <= s.start /\ s.start < s.end /\ s.end <= Len(text)
            /\ s.original_length = s.end - s.start
            /\ PySlice(text, s.start, s.end) = items[i].operated_on
            /\ s.substitute = items[i].text

\* The text with every span of `spans` replaced by the substitute stored
\* for its value and type, and everything else kept; for spans sorted by
\* start that do not overlap.
RECURSIVE Rewritten(_, _, _, _)
Rewritten(txt, spans, tbl, from) ==
    IF spans = <<>> THEN PySlice(txt, from, Len(txt))
    ELSE LET d == Head(spans)
             m == CHOOSE r \in Matching(tbl, compute_hash(Str(d.text), d.entity_type),
                                        d.entity_type) : TRUE
         IN PySlice(txt, from, d.start) \o Chars(m.substitute)
              \o Rewritten(txt, Tail(spans), tbl, d.end)

\* C10 (SpecAnon).  When the detected spans do not overlap, each has a
\* stored substitute and the anonymized text is the original text with each
\* span replaced by its substitute and every other character unchanged.
C10_RewriteCorrect ==
    (aPc = "done" /\ C7_SortedNonOverlapping) =>
        /\ \A i \in DOMAIN detections :
              Matching(rows, compute_hash(Str(detections[i].text),
                                          detections[i].entity_type),
                       detections[i].entity_type) # {}
        /\ result.anonymized_text = Rewritten(text, detections, rows, 0)


(***************************************************************************)
(* Claims about the reported result and the durable state.                  *)
(***************************************************************************)

RECURSIVE SumCounts(_)
SumCounts(tbl) ==
    IF tbl = {} THEN 0
    ELSE LET r == CHOOSE x \in tbl : TRUE
         IN r.substitution_count + SumCounts(tbl \ {r})

\* C11 (SpecAnon).  In every single-text request: entities_detected is the
\* number of detected spans; entities_anonymized is the number of entities
\* the engine replaced and the length of the substitution list, and is at
\* most entities_detected; new_mappings_created is the number of rows the
\* request added to the store, existing_mappings_used the number of
\* increments it made to rows that were there, and the two add up to
\* entities_anonymized.
C11_CountsCoherent ==
    [][(aPc' = "done" /\ started' # started) =>
          /\ result'.entities_detected = Len(detections')
          /\ result'.entities_anonymized = Len(result'.substitutions)
          /\ result'.entities_anonymized = Len(items')
          /\ result'.entities_anonymized <= result'.entities_detected
          /\ result'.new_mappings_created + result'.existing_mappings_used
                = result'.entities_anonymized
          /\ result'.new_mappings_created = Cardinality(rows') - Cardinality(rows)
          /\ result'.existing_mappings_used
                = SumCounts(rows') - SumCounts(rows) - result'.new_mappings_created]_vars

\* C11 witness: a request that detected the same value twice, created its
\* mapping at the first occurrence and reused it at the second.
C11_Witness ==
    /\ aPc = "done"
    /\ result.entities_detected = 2
    /\ result.entities_anonymized = 2
    /\ result.new_mappings_created = 1
    /\ result.existing_mappings_used = 1

\* The store the i-th text of the last batch ran against.
BatchStoreBefore(i) == IF i = 1 THEN batch.before ELSE batch.stores[i - 1]

\* C12 (SpecAnon).  A batch over N texts gives N results; the i-th is what
\* a single-text anonymize of the i-th text gives on the store as the
\* texts before it left it, and leaves the store the next text runs
\* against; total_detected is the sum of the results' entities_detected;
\* and the batch adds one audit row, of operation "batch_anonymize", to the
\* rows that were there.
C12_BatchAsSingles ==
    aPc = "batch_done" =>
        /\ Len(batch.results) = Len(batch.texts)
        /\ \A i \in DOMAIN batch.texts :
              \E generated \in [1..MaxSpans -> Generated] :
                 LET single == AnonymizeOn(BatchStoreBefore(i).tbl,
                                           BatchStoreBefore(i).now,
                                           batch.texts[i], entity_types,
                                           batch.found[i], generated)
                 IN /\ batch.results[i] = single.result
                    /\ batch.stores[i] = [tbl |-> single.tbl, now |-> single.now]
        /\ rows = batch.stores[Len(batch.stores)].tbl
        /\ batch.total_detected
              = SumSeq([i \in DOMAIN batch.results |->
                           batch.results[i].entities_detected])
        /\ Len(audit_log) = Len(batch.logged) + 1
        /\ SubSeq(audit_log, 1, Len(batch.logged)) = batch.logged
        /\ audit_log[Len(audit_log)].operation = "batch_anonymize"

\* C12 witness: a batch of two texts with the same detected value: the
\* first created the mapping, the second reused it.
C12_Witness ==
    /\ aPc = "batch_done"
    /\ Len(batch.texts) = 2
    /\ batch.results[1].new_mappings_created = 1
    /\ batch.results[2].existing_mappings_used = 1
    /\ batch.results[1].anonymized_text = batch.results[2].anonymized_text
    /\ batch.total_detected = 2
    /\ Len(audit_log) = 1

\* Every value a bounded text may hold: the str of each non-empty slice.
OriginalValues ==
    {Str(PySlice(t, i, j)) : t \in Texts, i \in 0..MaxTextLen, j \in 1..MaxTextLen}
        \ {""}

\* No audit row holds a value or a substitute: its fields are the operation,
\* entity type names, a length and counts.
AuditHoldsNoValue ==
    \A k \in DOMAIN audit_log :
        /\ DOMAIN audit_log[k] = {"operation", "entity_types_processed",
                                  "input_length", "entities_detected",
                                  "entities_anonymized"}
        /\ audit_log[k].operation \notin OriginalValues \cup Generated
        /\ audit_log[k].entity_types_processed \cap (OriginalValues \cup Generated) = {}
        /\ audit_log[k].input_length \in Nat
        /\ audit_log[k].entities_detected \in Nat
        /\ audit_log[k].entities_anonymized \in Nat

\* No field of the row of a value holds that value.
RowsHoldNoValue ==
    \A r \in rows : \A v \in OriginalValues :
        r.original_hash = compute_hash(v, r.entity_type)
            => /\ r.original_hash # v
               /\ r.entity_type # v
               /\ r.substitute # v

\* C13 (SpecAnon).  After any sequence of anonymize and batch requests no
\* audit row holds an original or a substitute value, and no mapping row
\* holds, in any field, the original value it stands for.
C13_NoValueLeak == AuditHoldsNoValue /\ RowsHoldNoValue

\* The request just answered carried an invalid input.
UnsupportedRequested ==
    entity_types.given /\ \E e \in Elems(entity_types.list) : e \notin SUPPORTED_ENTITY_TYPES

ThresholdOutOfRange == confidence_threshold < 0 \/ confidence_threshold > ScoreOne

InvalidInput ==
    \/ aPc \in {"done", "rejected"}
         /\ (text = <<>> \/ UnsupportedRequested \/ ThresholdOutOfRange)
    \/ aPc \in {"batch_done", "batch_rejected"}
         /\ \/ \E i \in DOMAIN batch.texts : batch.texts[i] = <<>>
            \/ UnsupportedRequested
            \/ ThresholdOutOfRange

\* C14 (SpecAnon).  A single-text or batch request with an empty text, an
\* unsupported entity type among the requested ones or a threshold outside
\* [0, 1] is rejected: detection does not run, and the mapping store and
\* the audit log stay as they were.
C14_InvalidInputRejected ==
    [][(started' # started /\ InvalidInput') =>
          /\ aPc' \in {"rejected", "batch_rejected"}
          /\ rows' = rows
          /\ audit_log' = audit_log]_vars

\* C15 (SpecAnon).  A recognizer that raises while a text is analysed does
\* not fail the request: no request, single or batch, is answered 500
\* because of it; the request completes with the other recognizers' spans.
C15_RecognizerFailSoft == aPc \notin {"failed", "batch_failed"}
(***************************************************************************)
(* Claims about the synthetic generator.                                   *)
(***************************************************************************)
SameArguments(c1, c2) ==
    /\ c1.entity_type = c2.entity_type
    /\ c1.original_value = c2.original_value
    /\ c1.original_hash = c2.original_hash

\* C16 (SpecGen).  Two generate calls with the same entity type of the
\* dispatch table, the same original value and the same non-empty
\* original_hash return the same substitute.
C16_SeededDeterminism ==
    (/\ gen_calls >= 2
     /\ SameArguments(gen_prev, gen_last)
     /\ gen_last.original_hash # ""
     /\ gen_last.entity_type \in Generators)
        => gen_prev.result = gen_last.result

\* C17 (SpecGen).  generate never returns its original value.
C17_NeverOriginal ==
    (gen_calls >= 1 /\ gen_last.original_value # NoOriginal)
        => gen_last.result # gen_last.original_value

\* The ranges the claims call private: 10/8, 172.16/12, 192.168/16, 127/8,
\* 169.254/16.
InPrivateRanges(o) ==
    \/ o[1] = 10
    \/ o[1] = 172 /\ 16 <= o[2] /\ o[2] <= 31
    \/ o[1] = 192 /\ o[2] = 168
    \/ o[1] = 127
    \/ o[1] = 169 /\ o[2] = 254

\* Outside the private, loopback, link-local, multicast and reserved ranges.
InPublicRanges(o) ==
    /\ ~InPrivateRanges(o)
    /\ ~PyIsPrivate(o)
    /\ o[1] < 224

\* a.b.c.d/n with 0 <= n <= 32 and every host bit zero.
IsNetworkPrefix(v) ==
    /\ v.octets # <<>>
    /\ v.prefix \in 0..32
    /\ \A k \in 1..4 : v.octets[k] % Pow2(8 - KeptBits(v.prefix, k)) = 0

IsHost(v) == v.octets # <<>> /\ ~IsNetworkPrefix(v)

\* C18 (SpecGen).  For an IPv4 host original, generate("IP_ADDRESS", ...) is
\* a private address iff the original is private and a public one
\* otherwise, with the original's "/n" suffix, or none when it has none.
C18_HostClassPreserved ==
    (/\ gen_calls >= 1
     /\ gen_last.entity_type = "IP_ADDRESS"
     /\ IsHost(gen_last.original_value))
        => /\ gen_last.result.octets # <<>>
           /\ InPrivateRanges(gen_last.result.octets)
                 <=> InPrivateRanges(gen_last.original_value.octets)
           /\ ~InPrivateRanges(gen_last.original_value.octets)
                 => InPublicRanges(gen_last.result.octets)
           /\ gen_last.result.prefix = gen_last.original_value.prefix

\* C18 witness: 192.168.1.50/24 gave a private host address with /24.
C18_Witness ==
    /\ gen_calls >= 1
    /\ gen_last.entity_type = "IP_ADDRESS"
    /\ gen_last.original_value = Ip(<<192, 168, 1, 50>>, 24)
    /\ gen_last.result.octets[1] = 172
    /\ gen_last.result.prefix = 24

\* Every address of the network o/n lies in one of the private ranges.
NetworkInPrivateRanges(o, n) ==
    \/ n >= 8 /\ o[1] \in {10, 127}
    \/ n >= 12 /\ o[1] = 172 /\ 16 <= o[2] /\ o[2] <= 31
    \/ n >= 16 /\ o[1] = 192 /\ o[2] = 168
    \/ n >= 16 /\ o[1] = 169 /\ o[2] = 254

\* C19 (SpecGen).  For a network prefix original, the result is a network
\* of the same prefix length with every host bit zero; it lies in the
\* private ranges when the original does, and its network address is not
\* private when the original's is not.
C19_NetworkClassPreserved ==
    (/\ gen_calls >= 1
     /\ gen_last.entity_type = "IP_ADDRESS"
     /\ IsNetworkPrefix(gen_last.original_value))
        => /\ IsNetworkPrefix(gen_last.result)
           /\ gen_last.result.prefix = gen_last.original_value.prefix
           /\ NetworkInPrivateRanges(gen_last.original_value.octets,
                                     gen_last.original_value.prefix)
                 => NetworkInPrivateRanges(gen_last.result.octets,
                                           gen_last.result.prefix)
           /\ ~InPrivateRanges(gen_last.original_value.octets)
                 => ~InPrivateRanges(gen_last.result.octets)

IsPlaceholder(v) == \E n \in PoolValues : v = Placeholder(n)

\* C20 (SpecGen).  Every entity type the detector emits gets a substitute of
\* its own generator, never the "<REDACTED_n>" placeholder; a type absent
\* from the dispatch table gets the placeholder.
C20_PlaceholderOnlyUnrecognized ==
    gen_calls >= 1 =>
        /\ gen_last.entity_type \in SUPPORTED_ENTITY_TYPES
              => ~IsPlaceholder(gen_last.result)
        /\ gen_last.entity_type \notin Generators
              => IsPlaceholder(gen_last.result)

(***************************************************************************)
(* Claims about administrative updates and single calls of get_or_create.  *)
(***************************************************************************)

\* An administrative route committed in this step (requests change pc).
AdminStep == pc' = pc /\ started' # started

\* Session s's get_or_create call returns in this step.
Returns(s) == Len(ret'[s]) = Len(ret[s]) + 1

\* C21 (Spec).  In every step: a committed row's substitute changes only
\* in a step of an administrative route, and such a step changes nothing
\* else of that row and no other row; and a get_or_create call that began
\* after the last update of its row committed returns the updated
\* substitute with is_new = FALSE.
C21_SubstituteOnlyByUpdate ==
    [][/\ \A r \in rows : \A q \in rows' :
             (q.id = r.id /\ q.substitute # r.substitute) =>
                 /\ AdminStep
                 /\ q = [r EXCEPT !.substitute = q.substitute]
                 /\ rows' \ {q} = rows \ {r}
       /\ \A s \in Sessions :
             (Returns(s) /\ updated[CurKey(s)] # NoVal /\ s \notin pending) =>
                 ret'[s][Len(ret'[s])] = <<updated[CurKey(s)], FALSE>>]_vars

\* C21 witness: a row's substitute was updated to another value than the
\* one first handed out, and a call that began afterwards returned it.
C21_Witness ==
    /\ last # NoCall
    /\ updated[last.key] # NoVal
    /\ last.session \notin pending
    /\ last.substitute = updated[last.key]
    /\ first[last.key] # last.substitute
    /\ ~last.is_new
    /\ \E r \in rows : KeyOf(r) = last.key /\ r.substitute = last.substitute
                       /\ r.substitution_count = 2

(***************************************************************************)
(* Claims about the configuration.                                          *)
(***************************************************************************)

\* The detections of the request answered in this step: those of the one
\* text, or those of every text of the batch.
DetectedNow ==
    IF aPc' = "done" THEN Elems(detections')
    ELSE IF aPc' = "batch_done"
         THEN UNION {Elems(batch'.found[i]) : i \in DOMAIN batch'.found}
         ELSE {}

\* C22 (SpecConfig).  In every step that answers an anonymize or batch
\* request: when the request left out entity_types, every detection's type
\* is one the active configuration had enabled when the request started
\* (none, when it had none enabled); when the request left out
\* confidence_threshold, the configuration's threshold was applied.
C22_DefaultsFromConfig ==
    [][(started' # started /\ aPc' \in {"done", "batch_done"}) =>
          /\ ~entity_types'.given =>
                \A d \in DetectedNow :
                    d.entity_type \in Elems(get_enabled_entity_types(config))
          /\ confidence_threshold' = Omitted =>
                /\ effective'.confidence_threshold = config.confidence_threshold
                /\ \A d \in DetectedNow : d.score >= config.confidence_threshold]_vars

\* The value an attribute must have after an update: the one supplied, or
\* the previous one when the request left it out.
SuppliedOr(supplied, previous) == IF supplied # PyNone THEN supplied ELSE previous

\* C29 (SpecConfig).  After a PUT /config: an out-of-range
\* confidence_threshold was refused and the configuration is as before;
\* otherwise every existing entity type the request names has the supplied
\* enabled, strategy and strategy_params and keeps the previous value of
\* each one left out, and every entity type not named is as before.
C29_UpdateFrame ==
    cfg_last.status # 0 =>
        IF ~ConfigUpdateRequest(cfg_last.request)
        THEN cfg_last.status # 200 /\ config = cfg_prev
        ELSE \A t \in DOMAIN cfg_prev.entity_types :
                /\ t \in DOMAIN config.entity_types
                /\ \A i \in DOMAIN cfg_last.request.entity_types :
                      cfg_last.request.entity_types[i].entity_type = t =>
                          config.entity_types[t] =
                              EntityTypeConfig(
                                  SuppliedOr(cfg_last.request.entity_types[i].enabled,
                                             cfg_prev.entity_types[t].enabled),
                                  SuppliedOr(cfg_last.request.entity_types[i].strategy,
                                             cfg_prev.entity_types[t].strategy),
                                  SuppliedOr(cfg_last.request.entity_types[i].strategy_params,
                                             cfg_prev.entity_types[t].strategy_params))
                /\ (\A i \in DOMAIN cfg_last.request.entity_types :
                       cfg_last.request.entity_types[i].entity_type # t) =>
                          config.entity_types[t] = cfg_prev.entity_types[t]

\* C23 (SpecGoC).  In every step that ends a get_or_create call of a
\* session by anything but a lock timeout: when the call's lookup found a
\* row, the call returns (stored substitute, FALSE) and the row's
\* substitution_count is one more than it was, last_used is set and no
\* other row changes; when the lookup found none, the call returns
\* (substitute, TRUE) and exactly one row is added, for the call's key,
\* with that substitute, substitution_count 1 and first_seen = last_used.
C23_StepSemantics ==
    [][\A s \in Sessions :
          /\ (pc[s] = "inc_write" /\ pc'[s] # "inc_write"
                  /\ err'[s] # "OperationalError") =>
                /\ Returns(s)
                /\ ret'[s][Len(ret'[s])] = <<existing[s], FALSE>>
                /\ \E r \in Matching(View(s), CurHash(s), CurType(s)) :
                      /\ r.substitute = existing[s]
                      /\ txn' = (View(s) \ {r}) \cup
                                   {[r EXCEPT !.substitution_count = @ + 1,
                                              !.last_used = clock]}
          /\ (pc[s] = "insert" /\ pc'[s] # "insert"
                  /\ err'[s] # "OperationalError") =>
                /\ Returns(s)
                /\ ret'[s][Len(ret'[s])][2] = TRUE
                /\ \E q \in txn' :
                      /\ q \notin View(s)
                      /\ txn' = View(s) \cup {q}
                      /\ KeyOf(q) = CurKey(s)
                      /\ q.substitute = ret'[s][Len(ret'[s])][1]
                      /\ q.substitution_count = 1
                      /\ q.first_seen = q.last_used]_vars

(***************************************************************************)
(* Claims about the loops of public-address generation.                     *)
(***************************************************************************)

\* An address outside every special-purpose block ipaddress knows.
IsPublicAddress(o) ==
    ~(PyIsPrivate(o) \/ PyIsLoopback(o) \/ PyIsLinkLocal(o)
      \/ PyIsMulticast(o) \/ PyIsReserved(o))

\* C24 (SpecLoop).  A generate_public_ipv4 or generate_public_network call
\* never gives up more than max_attempts candidates, and what it returns
\* once its attempts are used up is a network in public address space.
C24_BoundedAttempts ==
    /\ ip_loop.rejected <= max_attempts
    /\ (ip_loop.status = "returned" /\ ip_loop.via = "fallback") =>
           IsPublicAddress(ip_loop.result)

(***************************************************************************)
(* Claims about single requests: pairing, repeated values, no detection.    *)
(***************************************************************************)

\* C25 (SpecAnon).  In every answered single-text request the engine has
\* one item per detection, and the i-th detection by start and the i-th
\* item by output start belong together: the item replaced the text of
\* that detection's span, its substitute is the one the i-th substitution
\* entry reports, and it stands in the anonymized text at the item's place.
C25_PairingOneToOne ==
    aPc = "done" =>
        /\ Len(items) = Len(detections)
        /\ Len(result.substitutions) = Len(detections)
        /\ \A i \in DOMAIN items :
              /\ i \in DOMAIN detections
              /\ items[i].operated_on = SortedByStart(detections)[i].text
              /\ items[i].entity_type = SortedByStart(detections)[i].entity_type
              /\ result.substitutions[i].substitute = items[i].text
              /\ PySlice(result.anonymized_text, items[i].start, items[i].end)
                    = Chars(items[i].text)

\* C26 (SpecGoC).  While a session runs get_or_create for a span after its
\* first, it holds no uncommitted write of an earlier span: the write lock
\* is not its own.  (A session that holds no lock across spans keeps no
\* other session waiting for longer than one span's transaction.)
C26_ShortTransactions ==
    \A s \in Sessions :
        (InCall(s) /\ Len(ret[s]) >= 1) => wlock # s

\* The substitution_count stored for key k in table tbl, 0 with no row.
CountOf(tbl, k) ==
    IF Matching(tbl, k[1], k[2]) = {} THEN 0
    ELSE (CHOOSE r \in Matching(tbl, k[1], k[2]) : TRUE).substitution_count

\* The number of get_or_create calls for key k a request with these spans
\* makes.
CallsFor(spans, k) ==
    Cardinality({i \in DOMAIN spans :
                    <<compute_hash(spans[i][1], spans[i][2]), spans[i][2]>> = k})

\* C27 (SpecGoC).  Every commit of a request raises the committed
\* substitution_count of each key by exactly the number of get_or_create
\* calls the request completed for it (a row the request created counts
\* from 0), so that K completed calls raise it by K in any interleaving.
C27_NoLostUpdate ==
    [][\A s \in Sessions :
          (pc[s] = "commit" /\ pc'[s] = "done") =>
              \A k \in Keys :
                  CountOf(rows', k) = CountOf(rows, k) + CallsFor(req[s], k)]_vars

\* The engine items that replaced value v of type t.
ItemsOf(its, v, t) == {i \in DOMAIN its : its[i].operated_on = v /\ its[i].entity_type = t}

UnchangedResult(res, txt) ==
    /\ res.anonymized_text = txt
    /\ res.substitutions = <<>>
    /\ res.entities_detected = 0
    /\ res.entities_anonymized = 0
    /\ res.new_mappings_created = 0
    /\ res.existing_mappings_used = 0

\* C30 (SpecAnon).  In every step that answers a single-text request in
\* which detect returned no span: the result is the input text with no
\* substitution and all counts zero, the mapping table and the store's
\* clock are as before (no get_or_create ran, so no generator call was
\* made), and exactly one audit record was written.  In every step that
\* answers a batch, whose texts run with log_operation = False: each text
\* with no detection has such a result and leaves the table as it found it,
\* and the whole batch has written the one record of the batch.
C30_NoDetectionFrame ==
    [][/\ (aPc' = "done" /\ started' # started /\ detections' = <<>>) =>
             /\ UnchangedResult(result', text')
             /\ rows' = rows
             /\ clock' = clock
             /\ Len(audit_log') = Len(audit_log) + 1
             /\ audit_log'[Len(audit_log')].operation = "anonymize"
             /\ audit_log'[Len(audit_log')].entities_detected = 0
       /\ (aPc' = "batch_done" /\ started' # started) =>
             /\ \A i \in DOMAIN batch'.texts :
                   batch'.found[i] = <<>> =>
                       /\ UnchangedResult(batch'.results[i], batch'.texts[i])
                       /\ batch'.stores[i] =
                             (IF i = 1 THEN [tbl |-> rows, now |-> clock]
                                       ELSE batch'.stores[i - 1])
             /\ Len(audit_log') = Len(audit_log) + 1
             /\ audit_log'[Len(audit_log')].operation = "batch_anonymize"]_vars

\* C30 witness: a request for a text in which nothing was detected has been
\* answered with the text itself.
C30_Witness ==
    /\ aPc = "done"
    /\ Len(text) = MaxTextLen
    /\ detections = <<>>
    /\ result.anonymized_text = text
    /\ rows = {}
    /\ Len(audit_log) = 1

=============================================================================
